---- MODULE Spec2Model ----
(***************************************************************************)
(* State-machine model of the curation pipeline of                         *)
(* nwb_datajoint/spikesorting/spikesorting_curation.py: the Curation       *)
(* ledger (insert_curation), Waveforms.make, QualityMetrics.make,          *)
(* AutomaticCuration.make and FinalizedSpikeSorting.make.                  *)
(*                                                                         *)
(* A table is the set of its rows.  insert1 keeps the attributes the       *)
(* table declares, refuses a row whose foreign key names no parent row     *)
(* (IntegrityError) and a row whose primary key is already present         *)
(* (DuplicateError); a blob attribute holds whatever value it is given.    *)
(* fetch1 needs exactly one matching row.  Every call is one action: the   *)
(* calls are synchronous and run to completion.  The variable last records *)
(* what the most recent call was given and how it ended.  The variable      *)
(* inserting holds the calls of insert_curation that are under way when    *)
(* two callers run it at once, each at its own line.                       *)
(***************************************************************************)
EXTENDS Integers, Sequences, FiniteSets, TLC

VARIABLES curation, waveforms, quality_metrics, automatic_curation,
          finalized, finalized_unit, files, last, inserting

vars == <<curation, waveforms, quality_metrics, automatic_curation,
          finalized, finalized_unit, files, last, inserting>>

tables == <<curation, waveforms, quality_metrics, automatic_curation,
            finalized, finalized_unit, files>>

(***************************************************************************)
(* Bounds and the small input sets.                                        *)
(***************************************************************************)
\* how many different ids the uuid draw of insert_curation can produce
MaxId == 2

\* 'C_' + str(uuid.uuid4())[:8], as a number
IdPool == 1..MaxId

\* the default parent_curation_id, 'original'; it is the id of no record
Original == 0

\* rows of SpikeSorting (each stands for its whole primary key)
SortingRefs == {"s1", "s2"}

\* a sorting key that names no row of SpikeSorting
NoSorting == "missing"

\* sorting.get_unit_ids() of every sorting
Units == {1, 2, 3}

\* an argument left out (None), and one that is given
NoneArg == [given |-> FALSE, val |-> <<>>]

Given(v) == [given |-> TRUE, val |-> v]

\* the values a merge_groups blob ends up holding: a list of groups, a
\* sorting extractor of a SpikeSorting row, the class NotImplementedError
ListValue(groups) == [kind |-> "list", groups |-> groups, ref |-> "-"]

SortingObject(s) == [kind |-> "sorting", groups |-> <<>>, ref |-> s]

NotImplementedErrorClass == [kind |-> "NotImplementedError", groups |-> <<>>, ref |-> "-"]

\* labels: unit id -> list of label strings
ExampleLabels == (1 :> <<"noise">> @@ 2 :> <<"good">> @@ 3 :> <<>>)

PartialLabels == (1 :> <<"reject">>)

RejectedLabels == (1 :> <<"noise">> @@ 2 :> <<"reject">> @@ 3 :> <<"noise", "mua">>)

\* metrics: metric name -> (unit id -> value)
Q1 == [snr |-> [u \in Units |-> 4 + u], isi_violation |-> [u \in Units |-> 0]]

Q2 == [snr |-> [u \in Units |-> 2 * u]]

\* the (labels, merge_groups, metrics) arguments a caller gives insert_curation
ArgBundles ==
    { [labels |-> NoneArg, merge_groups |-> NoneArg, metrics |-> NoneArg],
      [labels |-> Given(ExampleLabels), merge_groups |-> Given(ListValue(<<>>)),
       metrics |-> Given(Q2)],
      [labels |-> Given(PartialLabels), merge_groups |-> Given(ListValue(<<<<1, 2>>>>)),
       metrics |-> NoneArg],
      [labels |-> Given(RejectedLabels), merge_groups |-> NoneArg, metrics |-> NoneArg] }

NoArgs == [labels |-> NoneArg, merge_groups |-> NoneArg, metrics |-> NoneArg]

(***************************************************************************)
(* Curation.insert_curation                                                *)
(***************************************************************************)
\* DefaultIfNone with the given argument thrown away
DefaultAlways(arg, default) == default

\* lines 61-66: an argument that is None becomes the empty value
DefaultIfNone(arg, default) == IF arg.given THEN arg.val ELSE default

\* FreshIds without the look-up of line 72
AnyId(rows) == IdPool

\* lines 69-73: the ids the loop can leave with (no row has that curation_id)
FreshIds(rows) == {id \in IdPool : \A r \in rows : r.curation_id # id}

\* lines 75-80: the row insert_curation builds in the key it was handed
CurationRow(id, sorting, parent_curation_id, labels, merge_groups, metrics, description) ==
    [curation_id        |-> id,
     sorting            |-> sorting,
     parent_curation_id |-> parent_curation_id,
     labels             |-> DefaultIfNone(labels, <<>>),
     merge_groups       |-> DefaultIfNone(merge_groups, ListValue(<<>>)),
     metrics            |-> DefaultIfNone(metrics, <<>>),
     description        |-> description]

\* line 82, Curation.insert1: the foreign key -> SpikeSorting (line 26) and the
\* primary key (curation_id, SpikeSorting) (lines 25-26)
CurationInsert1(rows, row) ==
    IF row.sorting \notin SortingRefs THEN "IntegrityError"
    ELSE IF \E r \in rows : r.curation_id = row.curation_id /\ r.sorting = row.sorting
         THEN "DuplicateError"
         ELSE "ok"

\* Insert with the rows of the same sorting replaced by the new row
Replace(rows, row) == {r \in rows : r.sorting # row.sorting} \cup {row}

\* line 82, insert1 of a row that passed: the table gains the row, and no row
\* it held is touched (no update1, no replace=True anywhere in the file)
Insert(rows, row) == rows \cup {row}

NoCall == [op |-> "none", outcome |-> "ok", sorting |-> NoSorting, curation_id |-> Original,
           parent_arg |-> Original, args |-> NoArgs, ret |-> Original,
           loaded |-> <<>>, merged |-> FALSE, accepted |-> {},
           params |-> "-", proposed |-> <<>>]

\* a caller's insert_curation(sorting_key, parent_curation_id, labels,
\* merge_groups, metrics): lines 36-84
insert_curation ==
    \E sorting \in SortingRefs \cup {NoSorting}, parent \in {Original} \cup IdPool,
       args \in ArgBundles :
      \E id \in FreshIds(curation) :
        LET row == CurationRow(id, sorting, parent, args.labels, args.merge_groups,
                               args.metrics, "")
            outcome == CurationInsert1(curation, row)
        IN /\ curation' = IF outcome = "ok" THEN Insert(curation, row) ELSE curation
           /\ last' = IF outcome = "ok"
                      THEN [NoCall EXCEPT !.op = "insert_curation", !.sorting = sorting,
                                          !.parent_arg = parent, !.args = args, !.ret = id]
                      ELSE [NoCall EXCEPT !.op = "insert_curation", !.outcome = outcome,
                                          !.sorting = sorting]
           /\ UNCHANGED <<waveforms, quality_metrics, automatic_curation,
                          finalized, finalized_unit, files, inserting>>

(***************************************************************************)
(* Reading the ledger                                                      *)
(***************************************************************************)
\* a key field that the key dictionary does not hold
Absent == -1

\* (Curation & key): the rows that agree with the key on every attribute of
\* Curation the key holds (curation_id, the SpikeSorting key and, when the
\* key carries one, parent_curation_id)
CurationMatching(rows, key) ==
    {r \in rows : /\ r.curation_id = key.curation_id
                  /\ r.sorting = key.sorting
                  /\ (key.parent_curation_id # Absent
                        => r.parent_curation_id = key.parent_curation_id)}

\* what a call hands back: an error name ("" when it returned) and a value
Returned(v) == [err |-> "", val |-> v]

Raised(e) == [err |-> e, val |-> NotImplementedErrorClass]

\* lines 100-118: fetch1('merge_groups') needs exactly one row; len() of a
\* stored sorting extractor is a TypeError; with merge groups present the
\* class NotImplementedError is returned, not raised
get_curated_sorting_extractor(rows, key) ==
    LET m == CurationMatching(rows, key)
    IN IF Cardinality(m) # 1 THEN Raised("DataJointError")
       ELSE LET merge_groups == (CHOOSE r \in m : TRUE).merge_groups
            IN IF merge_groups.kind # "list" THEN Raised("TypeError")
               ELSE IF Len(merge_groups.groups) # 0
                    THEN Returned(NotImplementedErrorClass)
                    ELSE Returned(SortingObject(key.sorting))

(***************************************************************************)
(* Files under NWB_DATAJOINT_WAVEFORMS_DIR                                 *)
(***************************************************************************)
\* lines 281-283: curation_id + '_waveform'
waveform_extractor_name(key) == <<key.curation_id, "_waveform">>

\* lines 375-378: the waveform name + '_qm' (+ '.json', line 363)
quality_metrics_name(key) == <<key.curation_id, "_waveform_qm.json">>

Exists(fs, path) == path \in DOMAIN fs

Remove(fs, path) == [p \in DOMAIN fs \ {path} |-> fs[p]]

Write(fs, path, content) ==
    [p \in DOMAIN fs \cup {path} |-> IF p = path THEN content ELSE fs[p]]

\* a folder is the set of what was saved in it: saving adds to what is there
SaveInFolder(fs, path, item) ==
    [p \in DOMAIN fs \cup {path} |->
        IF p # path THEN fs[p]
        ELSE IF path \in DOMAIN fs THEN fs[path] \cup {item} ELSE {item}]

(***************************************************************************)
(* Waveforms.make                                                          *)
(***************************************************************************)
\* rows of WaveformParameters: 'default' (lines 197-205)
WaveformParamNames == {"default"}

\* what extract_waveforms leaves in its folder for a key
WaveformArtifact(key) ==
    [kind |-> "waveforms", sorting |-> key.sorting, params |-> key.waveform_params_name]

\* Cleared with the folder left as it is
Kept(fs, path) == fs

\* lines 244-245: a folder that exists at the path is removed
Cleared(fs, path) == IF Exists(fs, path) THEN Remove(fs, path) ELSE fs

WaveformKeys ==
    {[curation_id |-> c, sorting |-> s, parent_curation_id |-> Absent,
      waveform_params_name |-> w] :
        c \in IdPool, s \in SortingRefs, w \in WaveformParamNames}

WaveformsRow(key, path) ==
    [curation_id |-> key.curation_id, sorting |-> key.sorting,
     waveform_params_name |-> key.waveform_params_name,
     waveform_extractor_path |-> path]

HasKey(rows, row, attrs) ==
    \E r \in rows : \A a \in attrs : r[a] = row[a]

\* lines 227-258
Waveforms_run(key) ==
    /\ UNCHANGED inserting
    /\ LET sorting == get_curated_sorting_extractor(curation, key)
          path    == waveform_extractor_name(key)
          row     == WaveformsRow(key, path)
          cleared == Cleared(files, path)
          call(outcome) ==
              IF outcome \in {"ok", "DuplicateError"}
              THEN [NoCall EXCEPT !.op = "Waveforms.make", !.outcome = outcome,
                                  !.sorting = key.sorting,
                                  !.curation_id = key.curation_id,
                                  !.params = key.waveform_params_name]
              ELSE [NoCall EXCEPT !.op = "Waveforms.make", !.outcome = outcome]
      IN IF sorting.err # ""
         THEN /\ last' = call(sorting.err)
              /\ UNCHANGED tables
         ELSE IF sorting.val.kind # "sorting"
         THEN \* lines 244-246: the old folder is gone, extract_waveforms
              \* cannot read units from the class NotImplementedError
              /\ files' = cleared
              /\ last' = call("AttributeError")
              /\ UNCHANGED <<curation, waveforms, quality_metrics, automatic_curation,
                             finalized, finalized_unit>>
         ELSE /\ files' = SaveInFolder(cleared, path, WaveformArtifact(key))
              /\ IF HasKey(waveforms, row, {"curation_id", "sorting", "waveform_params_name"})
                 THEN /\ waveforms' = waveforms
                      /\ last' = call("DuplicateError")
                 ELSE /\ waveforms' = waveforms \cup {row}
                      /\ last' = call("ok")
              /\ UNCHANGED <<curation, quality_metrics, automatic_curation,
                             finalized, finalized_unit>>

Waveforms_make ==
    \E key \in WaveformKeys : Waveforms_run(key)

(***************************************************************************)
(* QualityMetrics.make                                                     *)
(***************************************************************************)
\* lines 427-432: the metric names _metric_name_to_func knows
SupportedMetrics == {"snr", "isi_violation", "nn_isolation", "nn_noise_overlap"}

\* rows of MetricParameters: name -> the metric names of metric_params, in order
MetricParams ==
    [franklab_default |-> <<"snr", "isi_violation">>,
     unknown          |-> <<"snr", "firing_rate">>]

MetricParamNames == DOMAIN MetricParams

\* what a metric function computes (external): a value for every unit
MetricValue(metric_name) ==
    IF metric_name \in DOMAIN Q1 THEN Q1[metric_name] ELSE [u \in Units |-> 1]

\* _compute_metric with a name outside the table computed as an empty metric
compute_metric_unchecked(metric_name) ==
    IF metric_name \in SupportedMetrics
    THEN [err |-> "", val |-> MetricValue(metric_name)]
    ELSE [err |-> "", val |-> <<>>]

\* lines 380-395: line 381 looks the name up in _metric_name_to_func, a
\* KeyError for a name that is not there
compute_metric(metric_name) ==
    IF metric_name \in SupportedMetrics
    THEN [err |-> "", val |-> MetricValue(metric_name)]
    ELSE [err |-> "KeyError", val |-> <<>>]

\* lines 354-360: the loop over params.items() stops at the first name whose
\* _compute_metric raises; qm is complete only when none did
FirstError(names) ==
    IF \A i \in 1..Len(names) : compute_metric(names[i]).err = "" THEN ""
    ELSE LET i == CHOOSE j \in 1..Len(names) :
                    /\ compute_metric(names[j]).err # ""
                    /\ \A k \in 1..(j - 1) : compute_metric(names[k]).err = ""
         IN compute_metric(names[i]).err

Computed(names) ==
    [n \in {names[i] : i \in 1..Len(names)} |-> compute_metric(n).val]

MetricKeys ==
    {[curation_id |-> c, sorting |-> s, parent_curation_id |-> Absent,
      waveform_params_name |-> w, metric_params_name |-> m] :
        c \in IdPool, s \in SortingRefs, w \in WaveformParamNames,
        m \in MetricParamNames}

QualityMetricsRow(key, path) ==
    [curation_id |-> key.curation_id, sorting |-> key.sorting,
     waveform_params_name |-> key.waveform_params_name,
     metric_params_name |-> key.metric_params_name,
     quality_metrics_path |-> path]

\* lines 352-373
QualityMetrics_make ==
    \E key \in MetricKeys :
     /\ UNCHANGED inserting
     /\ LET wf == {r \in waveforms : /\ r.curation_id = key.curation_id
                                   /\ r.sorting = key.sorting
                                   /\ r.waveform_params_name = key.waveform_params_name}
          names == MetricParams[key.metric_params_name]
          path  == quality_metrics_name(key)
          row   == QualityMetricsRow(key, path)
          call(outcome) ==
              IF outcome = "ok"
              THEN [NoCall EXCEPT !.op = "QualityMetrics.make", !.sorting = key.sorting,
                                  !.curation_id = key.curation_id,
                                  !.params = key.metric_params_name]
              ELSE [NoCall EXCEPT !.op = "QualityMetrics.make", !.outcome = outcome,
                                  !.params = key.metric_params_name]
      IN IF Cardinality(wf) # 1
         THEN /\ last' = call("DataJointError")
              /\ UNCHANGED tables
         ELSE IF ~Exists(files, (CHOOSE r \in wf : TRUE).waveform_extractor_path)
         THEN /\ last' = call("FileNotFoundError")
              /\ UNCHANGED tables
         ELSE IF FirstError(names) # ""
         THEN \* nothing was dumped or inserted yet (lines 366, 373)
              /\ last' = call(FirstError(names))
              /\ UNCHANGED tables
         ELSE /\ files' = Write(files, path, Computed(names))
              /\ IF HasKey(quality_metrics, row,
                           {"curation_id", "sorting", "waveform_params_name",
                            "metric_params_name"})
                 THEN /\ quality_metrics' = quality_metrics
                      /\ last' = call("DuplicateError")
                 ELSE /\ quality_metrics' = quality_metrics \cup {row}
                      /\ last' = call("ok")
              /\ UNCHANGED <<curation, waveforms, automatic_curation,
                             finalized, finalized_unit>>

(***************************************************************************)
(* AutomaticCuration.make                                                  *)
(***************************************************************************)
\* a parameter dictionary that is not empty
SomeParams == [threshold |-> 1]

\* rows of AutomaticCurationParameters: 'default' (lines 444-449) and two more
AutomaticCurationParameters ==
    [default   |-> [merge_params |-> <<>>, label_params |-> <<>>],
     merging   |-> [merge_params |-> SomeParams, label_params |-> <<>>],
     labelling |-> [merge_params |-> <<>>, label_params |-> SomeParams]]

\* the key dictionary make is given: the primary key of
\* AutomaticCurationSelection and what else the caller put in it
AllAutoKeys ==
    {[curation_id |-> c, sorting |-> s, parent_curation_id |-> p,
      waveform_params_name |-> w, metric_params_name |-> m,
      auto_curation_params_name |-> a, has_parent_sorting_id |-> h] :
        c \in IdPool, s \in SortingRefs, p \in {Absent, Original} \cup IdPool,
        w \in WaveformParamNames, m \in MetricParamNames,
        a \in DOMAIN AutomaticCurationParameters, h \in BOOLEAN}

\* a key without parent_sorting_id fails at line 474, and one whose
\* metric_params_name has no row of QualityMetrics (no make of the unknown
\* parameter set ever writes one) at line 475, whatever else they hold: one
\* such key of each kind for each curation is enough
AutoKeys ==
    {k \in AllAutoKeys :
        \/ k.has_parent_sorting_id /\ k.metric_params_name = "franklab_default"
        \/ /\ k.parent_curation_id = Absent
           /\ k.auto_curation_params_name = "default"
           /\ (k.has_parent_sorting_id <=> k.metric_params_name = "unknown")}

\* the value of a call of get_merge_groups: a pair (merge_groups,
\* units_merged) that line 487 can unpack, or None
Pair(merge_groups, units_merged) ==
    [unpackable |-> TRUE, merge_groups |-> merge_groups, units_merged |-> units_merged]

PyNone == [unpackable |-> FALSE, merge_groups |-> ListValue(<<>>), units_merged |-> FALSE]

\* lines 546-565: without merge_params the sorting itself and False; with
\* them new_merges is [] (line 550), the loop body never runs, and the value
\* is that of list.sort(), None
get_merge_groups(sorting, parent_merge_groups, metrics, merge_params) ==
    IF merge_params = <<>> THEN Pair(sorting, FALSE) ELSE PyNone

\* line 592: the labels proposed from the metrics, new_labels = {}
NewLabels == <<>>

\* lines 593-599: a unit that has labels gets the proposed ones appended
\* (list.extend), a unit that has none gets the proposed list
extend_labels(parent_labels, new_labels) ==
    [n \in DOMAIN parent_labels \cup DOMAIN new_labels |->
        IF n \in DOMAIN new_labels
        THEN IF n \in DOMAIN parent_labels
             THEN parent_labels[n] \o new_labels[n]
             ELSE new_labels[n]
        ELSE parent_labels[n]]

\* get_labels with the labels of the parent forgotten
get_labels_forgetful(sorting, parent_labels, metrics, label_params) == <<>>

\* lines 589-599
get_labels(sorting, parent_labels, metrics, label_params) ==
    IF label_params = <<>> THEN parent_labels
    ELSE extend_labels(parent_labels, NewLabels)

\* CarriedMetrics with the metrics dropped whatever was decided
CarriedNothing(loaded, units_merged) == NoneArg

\* line 499: the metrics handed to insert_curation
CarriedMetrics(loaded, units_merged) ==
    IF ~units_merged THEN Given(loaded) ELSE NoneArg

\* line 512: the parent_curation_id handed to insert_curation
ChildParent(key) == key.parent_curation_id

\* line 502, _get_curated_sorting_name: the folder of the curated sorting
\* under NWB_DATAJOINT_SORTING_DIR
curated_sorting_name(key) == <<key.curation_id, "_curated_sorting">>

\* line 515, self.insert1(key): by then insert_curation has put the new id
\* in key['curation_id'] (line 75)
AutomaticCurationRow(key, id) ==
    [curation_id |-> id, sorting |-> key.sorting,
     waveform_params_name |-> key.waveform_params_name,
     metric_params_name |-> key.metric_params_name,
     auto_curation_params_name |-> key.auto_curation_params_name]

\* lines 468-515; decision, when given, stands for the value of the call of
\* get_merge_groups at line 487, and proposal, when given, for the new_labels
\* of line 592
AutomaticCuration_run(key, decision, proposal) ==
  /\ UNCHANGED inserting
  /\ LET qm == {r \in quality_metrics : /\ r.sorting = key.sorting
                                       /\ r.waveform_params_name = key.waveform_params_name
                                       /\ r.metric_params_name = key.metric_params_name}
        metrics_path == (CHOOSE r \in qm : TRUE).quality_metrics_path
        loaded == files[metrics_path]
        parents == CurationMatching(curation, key)
        parent_curation == CHOOSE r \in parents : TRUE
        parent_sorting == get_curated_sorting_extractor(curation, key)
        params == AutomaticCurationParameters[key.auto_curation_params_name]
        got == IF decision.given THEN decision.val
               ELSE get_merge_groups(parent_sorting.val, parent_curation.merge_groups,
                                     loaded, params.merge_params)
        labels == IF proposal.given
                  THEN extend_labels(parent_curation.labels, proposal.val)
                  ELSE get_labels(parent_sorting.val, parent_curation.labels, loaded,
                                  params.label_params)
        metrics == CarriedMetrics(loaded, got.units_merged)
        sorting_path == curated_sorting_name(key)
        early == IF ~key.has_parent_sorting_id THEN "KeyError"
                 ELSE IF Cardinality(qm) # 1 THEN "DataJointError"
                 ELSE IF ~Exists(files, metrics_path) THEN "FileNotFoundError"
                 ELSE IF Cardinality(parents) # 1 THEN "DataJointError"
                 ELSE IF parent_sorting.err # "" THEN parent_sorting.err
                 ELSE IF ~got.unpackable THEN "TypeError"
                 ELSE ""
        call(outcome, qmv, merged, id) ==
            IF outcome \in {"ok", "DuplicateError"}
            THEN [NoCall EXCEPT !.op = "AutomaticCuration.make", !.outcome = outcome,
                                !.sorting = key.sorting, !.curation_id = key.curation_id,
                                !.parent_arg = IF outcome = "ok" THEN key.parent_curation_id
                                               ELSE Original,
                                !.loaded = qmv, !.merged = merged, !.ret = id,
                                !.params = key.auto_curation_params_name,
                                !.proposed = IF proposal.given /\ id # Original
                                             THEN proposal.val ELSE <<>>]
            ELSE [NoCall EXCEPT !.op = "AutomaticCuration.make", !.outcome = outcome]
    IN IF early # ""
       THEN /\ last' = call(early, <<>>, FALSE, Original)
            /\ UNCHANGED tables
       ELSE IF got.units_merged
       THEN \* lines 489-491: return NotImplementedError
            /\ last' = call("ok", loaded, TRUE, Original)
            /\ UNCHANGED tables
       ELSE IF parent_sorting.val.kind # "sorting"
       THEN \* line 508: the class NotImplementedError has no save
            /\ last' = call("AttributeError", loaded, FALSE, Original)
            /\ UNCHANGED tables
       ELSE /\ files' = Write(files, sorting_path,
                              [kind |-> "sorting", sorting |-> key.sorting, params |-> "-"])
            /\ UNCHANGED <<waveforms, quality_metrics, finalized, finalized_unit>>
            /\ IF ChildParent(key) = Absent
               THEN /\ last' = call("KeyError", loaded, FALSE, Original)
                    /\ UNCHANGED <<curation, automatic_curation>>
               ELSE \E id \in FreshIds(curation) :
                      LET row == CurationRow(id, key.sorting, ChildParent(key),
                                             Given(labels), Given(got.merge_groups),
                                             metrics, "auto curated")
                          inserted == CurationInsert1(curation, row)
                          result == AutomaticCurationRow(key, id)
                      IN IF inserted # "ok"
                         THEN /\ last' = call(inserted, loaded, FALSE, Original)
                              /\ UNCHANGED <<curation, automatic_curation>>
                         ELSE /\ curation' = Insert(curation, row)
                              /\ IF result \in automatic_curation
                                 THEN /\ automatic_curation' = automatic_curation
                                      /\ last' = call("DuplicateError", loaded, FALSE, id)
                                 ELSE /\ automatic_curation' = automatic_curation \cup {result}
                                      /\ last' = call("ok", loaded, FALSE, id)

AutomaticCuration_make ==
    \E key \in AutoKeys : AutomaticCuration_run(key, NoneArg, NoneArg)

(***************************************************************************)
(* FinalizedSpikeSorting.make                                              *)
(***************************************************************************)
\* line 634
unit_labels_to_remove == {"reject", "noise"}

Elements(list) == {list[i] : i \in 1..Len(list)}

\* lines 647-653: a unit without an entry in unit_labels is accepted, one with
\* an entry is accepted when none of its labels is to be removed
accepted_units(unit_ids, unit_labels) ==
    {u \in unit_ids :
        IF u \in DOMAIN unit_labels
        THEN unit_labels_to_remove \cap Elements(unit_labels[u]) = {}
        ELSE TRUE}

\* line 658, ','.join(list): the labels with a comma between neighbours ('' for
\* no labels), as the sequence of its pieces
Join(list) ==
    [i \in 1..(IF Len(list) = 0 THEN 0 ELSE 2 * Len(list) - 1) |->
        IF i % 2 = 1 THEN list[(i + 1) \div 2] ELSE ","]

\* lines 656-658: unit_labels[unit_id] of every accepted unit is read
LabelsOfAccepted(accepted, unit_labels) ==
    IF \E u \in accepted : u \notin DOMAIN unit_labels
    THEN Raised("KeyError")
    ELSE Returned([u \in accepted |-> Join(unit_labels[u])])

\* DictAttribute for a dictionary that had the attribute asked for
DictAttributeFound(attr) == Returned(NotImplementedErrorClass)

\* an attribute that is not one of dict's, asked of a dictionary
\* (lines 661 and 163)
DictAttribute(attr) == Raised("AttributeError")

\* line 661, metrics.loc[accepted_units]: metrics is the dictionary that
\* insert_curation stored (lines 65-66, 80), and a dict has no attribute loc
MetricsLoc(metrics, accepted) == DictAttribute("loc")

\* lines 684-687: save_sorting_nwb is a staticmethod called with self as its
\* first argument, so its sorting parameter is the key dictionary, and line
\* 163 asks the dictionary for get_unit_spike_train
SaveSortingNwb(key, accepted) == DictAttribute("get_unit_spike_train")

\* lines 625-630: the metric columns of the Unit part and their defaults
UnitColumns ==
    {"noise_overlap", "isolation_score", "isi_violation", "snr", "firing_rate",
     "num_spikes"}

Sentinel(column) == IF column = "snr" THEN 0 ELSE 0 - 1

\* line 701: the metrics hold the field for the unit
HasMetric(metrics, u, field) ==
    field \in DOMAIN metrics /\ u \in DOMAIN metrics[field]

\* lines 697-706: the loop writes unit_id, label and the metric fields of
\* each accepted unit into the one key dictionary, a field a unit lacks
\* keeping what an earlier unit left there; the insert1 after the loop
\* stores the key as the last unit left it, the defaults of the table
\* filling the fields that no unit set
UnitRow(key, accepted, labels, metrics) ==
    LET u == CHOOSE a \in accepted : \A b \in accepted : b <= a
    IN [curation_id |-> key.curation_id, sorting |-> key.sorting,
        unit_id |-> u, label |-> labels[u],
        columns |-> [f \in UnitColumns |->
            LET have == {a \in accepted : HasMetric(metrics, a, f)}
            IN IF have = {} THEN Sentinel(f)
               ELSE metrics[f][CHOOSE a \in have : \A b \in have : b <= a]]]

FinalizeKeys ==
    {[curation_id |-> c, sorting |-> s, parent_curation_id |-> Absent] :
        c \in IdPool, s \in SortingRefs}

\* lines 633-706
FinalizedSpikeSorting_make ==
    \E key \in FinalizeKeys :
      LET rows == CurationMatching(curation, key)
          row == CHOOSE r \in rows : TRUE
          sorting == get_curated_sorting_extractor(curation, key)
          accepted == accepted_units(Units, row.labels)
          labels == LabelsOfAccepted(accepted, row.labels)
          metrics == MetricsLoc(row.metrics, accepted)
          saved == SaveSortingNwb(key, accepted)
          call(outcome, acc) ==
              [NoCall EXCEPT !.op = "FinalizedSpikeSorting.make", !.outcome = outcome,
                             !.sorting = key.sorting, !.curation_id = key.curation_id,
                             !.accepted = acc]
      IN /\ UNCHANGED <<curation, waveforms, quality_metrics, automatic_curation, files,
                        inserting>>
         /\ IF Cardinality(rows) # 1
            THEN \* lines 636-640
                 /\ last' = call("Exception", {})
                 /\ UNCHANGED <<finalized, finalized_unit>>
            ELSE IF sorting.err # ""
            THEN /\ last' = call(sorting.err, {})
                 /\ UNCHANGED <<finalized, finalized_unit>>
            ELSE IF sorting.val.kind # "sorting"
            THEN \* line 644: the class NotImplementedError has no get_unit_ids
                 /\ last' = call("AttributeError", {})
                 /\ UNCHANGED <<finalized, finalized_unit>>
            ELSE IF labels.err # ""
            THEN /\ last' = call(labels.err, accepted)
                 /\ UNCHANGED <<finalized, finalized_unit>>
            ELSE IF metrics.err # ""
            THEN /\ last' = call(metrics.err, accepted)
                 /\ UNCHANGED <<finalized, finalized_unit>>
            ELSE IF DOMAIN row.labels = {} \/ accepted = {}
            THEN \* lines 666-668
                 /\ last' = call("ok", accepted)
                 /\ UNCHANGED <<finalized, finalized_unit>>
            ELSE IF saved.err # ""
            THEN /\ last' = call(saved.err, accepted)
                 /\ UNCHANGED <<finalized, finalized_unit>>
            ELSE IF \E r \in finalized : /\ r.curation_id = key.curation_id
                                          /\ r.sorting = key.sorting
            THEN \* line 688: the primary key is that of the selection (line 612)
                 /\ last' = call("DuplicateError", accepted)
                 /\ UNCHANGED <<finalized, finalized_unit>>
            ELSE /\ finalized' = finalized \cup
                       {[curation_id |-> key.curation_id, sorting |-> key.sorting]}
                 /\ IF finalized_unit = {}
                    THEN \* lines 695, 711: fetch(limit=1)[0] of the empty Unit table
                         /\ last' = call("IndexError", accepted)
                         /\ UNCHANGED finalized_unit
                    ELSE \* lines 697-706: one Unit row, that of the last accepted
                         \* unit (line 706 is outside the loop)
                         /\ finalized_unit' = finalized_unit \cup
                               {UnitRow(key, accepted, labels.val, row.metrics)}
                         /\ last' = call("ok", accepted)

\* the callers that can be inside insert_curation at once
Callers == {"a", "b"}

\* a caller that is not inside insert_curation
Idle == [pc |-> "idle", sorting |-> NoSorting, id |-> Original]

Init ==
    /\ inserting = [p \in Callers |-> Idle]
    /\ curation = {}
    /\ waveforms = {}
    /\ quality_metrics = {}
    /\ automatic_curation = {}
    /\ finalized = {}
    /\ finalized_unit = {}
    /\ files = <<>>
    /\ last = NoCall

Next ==
    \/ insert_curation
    \/ Waveforms_make
    \/ QualityMetrics_make
    \/ AutomaticCuration_make
    \/ FinalizedSpikeSorting_make

Spec == Init /\ [][Next]_vars

(***************************************************************************)
(* The branch of make on units_merged (lines 489-491) for every pair that  *)
(* get_merge_groups is documented to return (lines 536-539: the merge      *)
(* groups and merge_occurred, a bool).                                     *)
(***************************************************************************)
Decisions ==
    {Pair(g, m) : g \in {ListValue(<<>>), ListValue(<<<<1, 2>>>>)}, m \in BOOLEAN}

\* the keys of the runs that reach line 487 with merge_params given
DecidedKeys ==
    {k \in AutoKeys : /\ k.has_parent_sorting_id
                      /\ k.metric_params_name = "franklab_default"
                      /\ k.auto_curation_params_name = "merging"}

AutomaticCuration_make_decided ==
    \E key \in DecidedKeys, d \in Decisions :
      AutomaticCuration_run(key, Given(d), NoneArg)

NextDecided ==
    \/ Next
    \/ AutomaticCuration_make_decided

SpecMergeDecision == Init /\ [][NextDecided]_vars

(***************************************************************************)
(* The loop of get_labels (lines 593-599) for labels proposed from the     *)
(* metrics (overview of lines 586-588), which line 592 leaves empty.       *)
(***************************************************************************)
Proposals == {(1 :> <<"noise">>), (2 :> <<"mua">>)}

\* the keys of the runs that reach line 495 with label_params given
ProposedKeys ==
    {k \in AutoKeys : /\ k.has_parent_sorting_id
                      /\ k.metric_params_name = "franklab_default"
                      /\ k.auto_curation_params_name = "labelling"}

AutomaticCuration_make_proposed ==
    \E key \in ProposedKeys, new_labels \in Proposals :
      AutomaticCuration_run(key, NoneArg, Given(new_labels))

NextProposed ==
    \/ Next
    \/ AutomaticCuration_make_proposed

SpecLabelProposal == Init /\ [][NextProposed]_vars

(***************************************************************************)
(* The ledger and the waveform stage alone, with a second row of           *)
(* WaveformParameters (one with 'whiten', lines 233-238).                  *)
(***************************************************************************)
MoreWaveformParamNames == {"whitened"}

WhitenedKeys ==
    {[curation_id |-> c, sorting |-> s, parent_curation_id |-> Absent,
      waveform_params_name |-> w] :
        c \in IdPool, s \in SortingRefs, w \in MoreWaveformParamNames}

Waveforms_make_whitened ==
    \E key \in WhitenedKeys : Waveforms_run(key)

NextWaveforms ==
    \/ insert_curation
    \/ Waveforms_make
    \/ Waveforms_make_whitened

SpecWaveformParams == Init /\ [][NextWaveforms]_vars

(***************************************************************************)
(* insert_curation run by two callers at once, line by line: nothing in    *)
(* lines 68-82 holds a lock or a transaction, so the steps of the callers  *)
(* interleave freely.                                                      *)
(***************************************************************************)
\* line 71: the caller draws an id (any id: the look-up comes after)
insert_draw(p) ==
    /\ inserting[p].pc = "idle"
    /\ \E sorting \in SortingRefs, id \in IdPool :
          inserting' = [inserting EXCEPT ![p] = [pc |-> "line72", sorting |-> sorting,
                                                 id |-> id]]
    /\ UNCHANGED <<curation, waveforms, quality_metrics, automatic_curation,
                   finalized, finalized_unit, files, last>>

\* lines 72-73: the look-up of the id; an id that is taken sends the loop
\* back to line 71 for another draw
insert_lookup(p) ==
    /\ inserting[p].pc = "line72"
    /\ IF inserting[p].id \in FreshIds(curation)
       THEN inserting' = [inserting EXCEPT ![p].pc = "line82"]
       ELSE \E id \in IdPool : inserting' = [inserting EXCEPT ![p].id = id]
    /\ UNCHANGED <<curation, waveforms, quality_metrics, automatic_curation,
                   finalized, finalized_unit, files, last>>

\* lines 75-84: the row is built and inserted
insert_write(p) ==
    /\ inserting[p].pc = "line82"
    /\ LET row == CurationRow(inserting[p].id, inserting[p].sorting, Original,
                              NoneArg, NoneArg, NoneArg, "")
           outcome == CurationInsert1(curation, row)
       IN /\ curation' = IF outcome = "ok" THEN Insert(curation, row) ELSE curation
          /\ last' = IF outcome = "ok"
                     THEN [NoCall EXCEPT !.op = "insert_curation",
                                         !.sorting = inserting[p].sorting,
                                         !.ret = inserting[p].id]
                     ELSE [NoCall EXCEPT !.op = "insert_curation", !.outcome = outcome,
                                         !.sorting = inserting[p].sorting]
    /\ inserting' = [inserting EXCEPT ![p] = Idle]
    /\ UNCHANGED <<waveforms, quality_metrics, automatic_curation,
                   finalized, finalized_unit, files>>

NextConcurrent ==
    \/ \E p \in Callers : insert_draw(p)
    \/ \E p \in Callers : insert_lookup(p)
    \/ \E p \in Callers : insert_write(p)

SpecConcurrentInsert == Init /\ [][NextConcurrent]_vars

(***************************************************************************)
(* Lineage (spec 4.1): follow parent_curation_id from a record to the root *)
(***************************************************************************)
RECURSIVE LineageEnd(_, _, _)
\* where the walk from id ends: at the root sentinel, at a record already
\* visited (CycleError), or at an id that names no record
LineageEnd(rows, id, seen) ==
    IF id = Original THEN "root"
    ELSE IF id \in seen THEN "CycleError"
    ELSE IF \A r \in rows : r.curation_id # id THEN "missing"
    ELSE LineageEnd(rows, (CHOOSE r \in rows : r.curation_id = id).parent_curation_id,
                    seen \cup {id})

(***************************************************************************)
(* Properties                                                              *)
(***************************************************************************)
RowsWithId(id) == {r \in curation : r.curation_id = id}

CalledOn == {r \in curation : r.curation_id = last.curation_id /\ r.sorting = last.sorting}

PairwiseDisjoint(groups) ==
    \A i, j \in 1..Len(groups) :
        i # j => Elements(groups[i]) \cap Elements(groups[j]) = {}

NotRejected(labels) ==
    {u \in Units :
        u \in DOMAIN labels =>
            \A i \in 1..Len(labels[u]) : labels[u][i] \notin {"reject", "noise"}}

\* C1: no two records of the ledger have the same curation id, and the id an
\* insert (a caller's or the engine's) returns is the id of exactly one record.
C1_UniqueCurationIds ==
    /\ \A r1, r2 \in curation : r1.curation_id = r2.curation_id => r1 = r2
    /\ last.ret # Original => Cardinality(RowsWithId(last.ret)) = 1

C1_Witness ==
    /\ Cardinality(curation) = 2
    /\ \E r \in curation : r.description = "auto curated" /\ r.curation_id = last.ret
    /\ last.op = "AutomaticCuration.make"

\* C2: from every record of the ledger the lineage walk ends at the root
\* sentinel, without meeting a record twice and without leaving the ledger.
C2_LineageReachesRoot ==
    \A r \in curation : LineageEnd(curation, r.curation_id, {}) = "root"

C4_MetricsCarryForward ==
    (last.op = "AutomaticCuration.make" /\ last.ret # Original) =>
        /\ RowsWithId(last.ret) # {}
        /\ \A r \in RowsWithId(last.ret) :
              r.metrics = IF last.merged THEN <<>> ELSE last.loaded

C4_Witness ==
    /\ last.op = "AutomaticCuration.make"
    /\ last.ret # Original
    /\ ~last.merged
    /\ last.loaded = Q1
    /\ \E r \in RowsWithId(last.ret) : r.metrics = Q1 /\ r.description = "auto curated"

\* C5: finalize of a record whose curated view exists completes, and accepts
\* exactly the units none of whose labels is "reject" or "noise" (a unit
\* without labels is accepted).
C5_FinalizeAcceptsUnrejected ==
    last.op = "FinalizedSpikeSorting.make" =>
        \A r \in CalledOn :
            r.merge_groups = ListValue(<<>>) =>
                /\ last.outcome = "ok"
                /\ last.accepted = NotRejected(r.labels)

\* C6: finalize of a record whose metrics are empty ends in the precondition
\* error ("Metrics ... must be calculated", line 639), with nothing exported.
C6_EmptyMetricsPrecondition ==
    (last.op = "FinalizedSpikeSorting.make" /\ \E r \in CalledOn : r.metrics = <<>>) =>
        /\ last.outcome = "Exception"
        /\ finalized = {}
        /\ finalized_unit = {}

\* C7: the record read with the id a successful insert returned holds the
\* labels, merge_groups and metrics the insert was given, and {}, [] and {}
\* for those it was not given.
C7_RoundTrip ==
    (last.op = "insert_curation" /\ last.outcome = "ok") =>
        /\ Cardinality(RowsWithId(last.ret)) = 1
        /\ \A r \in RowsWithId(last.ret) :
              /\ r.labels = IF last.args.labels.given THEN last.args.labels.val ELSE <<>>
              /\ r.merge_groups = IF last.args.merge_groups.given
                                  THEN last.args.merge_groups.val ELSE ListValue(<<>>)
              /\ r.metrics = IF last.args.metrics.given THEN last.args.metrics.val ELSE <<>>

C7_Witness ==
    /\ last.op = "insert_curation"
    /\ last.outcome = "ok"
    /\ last.args.labels = Given(ExampleLabels)
    /\ last.args.metrics = Given(Q2)
    /\ \E r \in RowsWithId(last.ret) : r.labels = ExampleLabels /\ r.metrics = Q2
    /\ \E r \in curation : r.labels = <<>> /\ r.metrics = <<>>

\* C8: an insert without a row of SpikeSorting behind its key fails and adds
\* nothing, and the parent_curation_id of every record that is not a root is
\* the id of a record of the ledger.
C8_ParentExists ==
    /\ \A r \in curation : r.sorting \in SortingRefs
    /\ \A r \in curation :
          r.parent_curation_id # Original => RowsWithId(r.parent_curation_id) # {}

KeyOf(r) == [curation_id |-> r.curation_id, sorting |-> r.sorting,
             parent_curation_id |-> Absent]

ExportsOf(r) == {e \in finalized : e.curation_id = r.curation_id /\ e.sorting = r.sorting}

UnitRowsOf(r) ==
    {u \in finalized_unit : u.curation_id = r.curation_id /\ u.sorting = r.sorting}

\* a record finalize is meant to export: its curated view exists, it has
\* metrics and labels, and some unit is accepted
Exportable(r) ==
    /\ r.merge_groups = ListValue(<<>>)
    /\ r.metrics # <<>>
    /\ DOMAIN r.labels # {}
    /\ NotRejected(r.labels) # {}

EngineCreated == last.op = "AutomaticCuration.make" /\ last.ret # Original

NoRepeat(list) == Cardinality(Elements(list)) = Len(list)

LabelsOr(labels, u) == IF u \in DOMAIN labels THEN Elements(labels[u]) ELSE {}

\* C11: the curated view of every record whose merge_groups is a list is a
\* sorting (with each group merged into one unit); for a record without merge
\* groups it is the base sorting itself.
C11_CuratedViewIsSorting ==
    \A r \in curation :
        r.merge_groups.kind = "list" =>
            LET view == get_curated_sorting_extractor(curation, KeyOf(r))
            IN /\ view.err = ""
               /\ view.val.kind = "sorting"
               /\ Len(r.merge_groups.groups) = 0 => view.val = SortingObject(r.sorting)

UnsupportedNamed(params) ==
    /\ params \in MetricParamNames
    /\ \E i \in 1..Len(MetricParams[params]) :
          MetricParams[params][i] \notin SupportedMetrics

\* C14: a QualityMetrics.make whose parameter set names a metric outside the
\* supported ones ends in an error (the KeyError of the look-up once the
\* waveforms are loaded) and changes no table and no file.
C14_UnsupportedMetricFails ==
    [][(last'.op = "QualityMetrics.make" /\ UnsupportedNamed(last'.params)) =>
          /\ last'.outcome \in {"KeyError", "DataJointError", "FileNotFoundError"}
          /\ UNCHANGED tables]_vars

C14_Witness ==
    /\ last.op = "QualityMetrics.make"
    /\ last.params = "unknown"
    /\ last.outcome = "KeyError"
    /\ \E r \in quality_metrics : r.metric_params_name = "franklab_default"
    /\ \A r \in quality_metrics : r.metric_params_name # "unknown"

\* C15: every record of the ledger is, unchanged, a record of the ledger
\* after any step.
C15_RecordsImmutable ==
    [][\A r \in curation : r \in curation']_vars

C15_Witness ==
    /\ EngineCreated
    /\ \E parent \in CalledOn : parent.labels = ExampleLabels /\ parent.metrics = Q2
    /\ \E child \in RowsWithId(last.ret) : child.metrics = Q1

\* C16: the record created by an engine run whose merge_params are empty
\* stores the merge_groups of the record the run was called on.
C16_EmptyMergeParamsKeepsGroups ==
    (EngineCreated /\ AutomaticCurationParameters[last.params].merge_params = <<>>) =>
        \A child \in RowsWithId(last.ret), parent \in CalledOn :
            child.merge_groups = parent.merge_groups

\* C17: with merge_params given and nothing proposed, get_merge_groups
\* returns a pair: the merge groups it was given, and False.
C17_MergeDecisionIsPair ==
    \A r \in curation :
        r.merge_groups.kind = "list" =>
            LET got == get_merge_groups(SortingObject(r.sorting), r.merge_groups, Q1,
                                        SomeParams)
            IN /\ got.unpackable
               /\ got.merge_groups = r.merge_groups
               /\ ~got.units_merged

\* C18: the record created by an engine run whose label_params are empty has
\* the labels of the record the run was called on.
C18_EmptyLabelParamsKeepsLabels ==
    (EngineCreated /\ AutomaticCurationParameters[last.params].label_params = <<>>) =>
        \A child \in RowsWithId(last.ret), parent \in CalledOn :
            child.labels = parent.labels

C18_Witness ==
    /\ EngineCreated
    /\ last.params = "default"
    /\ \E parent \in CalledOn : parent.labels = ExampleLabels
    /\ \E child \in RowsWithId(last.ret) : child.labels = ExampleLabels

C20_FinalizeNoOp ==
    last.op = "FinalizedSpikeSorting.make" =>
        \A r \in CalledOn :
            (/\ r.merge_groups = ListValue(<<>>)
             /\ (DOMAIN r.labels = {} \/ NotRejected(r.labels) = {})) =>
                /\ last.outcome = "ok"
                /\ ExportsOf(r) = {}
                /\ UnitRowsOf(r) = {}

\* C22: every record that is not a root has the sorting of the record its
\* parent_curation_id names.
C22_SortingConstantAlongLineage ==
    \A r \in curation :
        r.parent_curation_id # Original =>
            \A parent \in RowsWithId(r.parent_curation_id) : parent.sorting = r.sorting

\* C23: after a Waveforms.make that got as far as extracting, the folder at
\* the path of its key holds the waveforms of that call and nothing else.
C23_FolderHoldsLatestOnly ==
    (last.op = "Waveforms.make" /\ last.outcome \in {"ok", "DuplicateError"}) =>
        LET key == [curation_id |-> last.curation_id, sorting |-> last.sorting,
                    waveform_params_name |-> last.params]
        IN /\ Exists(files, waveform_extractor_name(key))
           /\ files[waveform_extractor_name(key)] = {WaveformArtifact(key)}

C23_Witness ==
    /\ last.op = "Waveforms.make"
    /\ last.outcome = "ok"
    /\ last.params = "whitened"
    /\ \E w \in waveforms : /\ w.curation_id = last.curation_id
                            /\ w.sorting = last.sorting
                            /\ w.waveform_params_name = "default"
    /\ files[<<last.curation_id, "_waveform">>] =
          {[kind |-> "waveforms", sorting |-> last.sorting, params |-> "whitened"]}

C25_DistinctPaths ==
    /\ \A w1, w2 \in waveforms :
          w1 # w2 => w1.waveform_extractor_path # w2.waveform_extractor_path
    /\ \A q1, q2 \in quality_metrics :
          q1 # q2 => q1.quality_metrics_path # q2.quality_metrics_path
    /\ \A w \in waveforms :
          /\ Exists(files, w.waveform_extractor_path)
          /\ WaveformArtifact(w) \in files[w.waveform_extractor_path]

C26_UniqueIdsWhenConcurrent ==
    \A r1, r2 \in curation :
        r1.sorting # r2.sorting => r1.curation_id # r2.curation_id

====
